---- MODULE Spec2Model ----
(***************************************************************************)
(* Model of src/script.js: the IndexedDB-backed DatabaseManager (the       *)
(* Record Store) of the movie collection application.                      *)
(*                                                                         *)
(* JavaScript objects are functions from field names to values; a field    *)
(* that is absent is simply not in the DOMAIN.  Text is a sequence of      *)
(* one-character strings, "" is <<>>.  Timestamps are the strings          *)
(* toISOString produces, modelled as fixed-width digit sequences.          *)
(***************************************************************************)
EXTENDS Integers, Sequences, FiniteSets, TLC

\* Bounds of the model.
MaxClock == 2        \* the millisecond clock reads 1..MaxClock
MaxItems == 2        \* the storage budget: the movies store holds MaxItems records
MaxStored == 3       \* the stores queried hold records under the keys 1..MaxStored
MaxOps == 3          \* the user starts up to MaxOps operations on the page in a session
MaxInputs == 3       \* the user changes the text of the search box up to MaxInputs times

VARIABLES
    db,         \* DatabaseManager.db: "null" or "open"
    movies,     \* object store 'movies': key (id) -> record
    settings,   \* object store 'settings': key -> record
    clock,      \* the last reading of the millisecond clock
    last,       \* the last DatabaseManager call: its arguments and outcome
    localStorage,   \* the localStorage entry 'myMovies': <<>> (none) or <<text>>
    mgrMovies,  \* MovieManager.movies: the in-memory list of the controller
    flow,       \* the controller flow in progress and the place it has reached
    file,       \* the file last downloaded (export or backup): <<>> or <<text>>
    view,       \* what the page shows: the list rendered and the last notification
    other,      \* a second controller flow, begun while the first was still running
    box         \* the search box: its text, its timers and the queries under way

\* The parts of the page that only the specifications of overlapping flows
\* and of the search box move.
aside == <<other, box>>

\* The state of the MovieManager and of the page around it.
app == <<localStorage, mgrMovies, flow, file, view, aside>>

vars ==
    <<db, movies, settings, clock, last, localStorage, mgrMovies, flow, file, view,
      other, box>>

----------------------------------------------------------------------------
(* JavaScript values *)

NumFields == {"id", "year", "offset", "limit"}   \* fields holding a Number
ArrayFields == {"yearRange"}                     \* fields holding an Array
TagFields == {"sortBy"}                          \* fields holding an option name

\* o.f is set and truthy: !o.f is false.  0 and "" are falsy, an array never is.
Truthy(o, f) ==
    /\ f \in DOMAIN o
    /\ CASE f \in NumFields -> o[f] # 0
         [] f \in ArrayFields -> TRUE
         [] f \in TagFields -> o[f] # ""
         [] OTHER -> o[f] # <<>>

\* Object.assign(target, source): a shallow overwrite, field by field.
ObjectAssign(target, source) ==
    [f \in DOMAIN target \cup DOMAIN source |->
        IF f \in DOMAIN source THEN source[f] ELSE target[f]]

\* o.f = v
SetField(o, f, v) == ObjectAssign(o, [g \in {f} |-> v])

\* Date.prototype.toISOString: a fixed-width, zero-padded rendering of the
\* instant, so that the strings order as the instants do.
toISOString(t) == <<(t \div 10) % 10, t % 10>>

\* new Date(isoString): the instant the string denotes.
DateParse(s) == s[1] * 10 + s[2]

\* s < t for strings of equal length, as the JavaScript < on strings.
StrLess(s, t) ==
    \E i \in 1..Len(s) :
        /\ s[i] < t[i]
        /\ \A j \in 1..(i - 1) : s[j] = t[j]

\* String.prototype.toLowerCase over the letters of the model.
LowerChar(c) ==
    CASE c = "A" -> "a"
      [] c = "B" -> "b"
      [] OTHER -> c

toLowerCase(s) == [i \in 1..Len(s) |-> LowerChar(s[i])]

\* String.prototype.includes: q occurs in s as a contiguous substring.
includes(s, q) ==
    \E i \in 0..(Len(s) - Len(q)) :
        \A j \in 1..Len(q) : s[i + j] = q[j]

----------------------------------------------------------------------------
(* Outcomes of a call *)

Resolve(v) == [ok |-> TRUE, error |-> "", value |-> v]
Reject(e) == [ok |-> FALSE, error |-> e, value |-> <<>>]

\* What the engine does with a request that is otherwise well-formed.
NoFault == {"ok"}
ReadOutcomes == {"ok", "UnknownError"}

\* The record of a call, kept in last: the operation, its id and argument, its
\* outcome, the requests it made of the engine, and the operation it follows
\* when that was a successful add or delete of the same id (for clearAll, which
\* takes no id: a successful add).
Call(op, id, arg, res, reqs) ==
    [op |-> op, id |-> id, arg |-> arg, res |-> res, reqs |-> reqs,
     after |-> IF \/ /\ op \in {"getMovie", "updateMovie", "deleteMovie"}
                     /\ last.op \in {"addMovie", "deleteMovie"}
                     /\ last.res.ok
                     /\ last.id = id
                  \/ /\ op = "clearAll"
                     /\ last.op = "addMovie"
                     /\ last.res.ok
               THEN last.op
               ELSE ""]

\* The records of a store in key order, as IDBObjectStore.getAll returns them.
RECURSIVE KeySeq(_)
KeySeq(S) ==
    IF S = {} THEN <<>>
    ELSE LET k == CHOOSE x \in S : \A y \in S : x <= y
         IN  <<k>> \o KeySeq(S \ {k})

GetAll(store) ==
    LET ks == KeySeq(DOMAIN store)
    IN  [i \in 1..Len(ks) |-> store[ks[i]]]

\* IDBObjectStore.put with keyPath 'id': the record replaces whatever is
\* stored under its own id.
StorePut(store, rec) ==
    [k \in DOMAIN store \cup {rec.id} |-> IF k = rec.id THEN rec ELSE store[k]]

\* IDBObjectStore.delete
StoreDelete(store, id) == [k \in DOMAIN store \ {id} |-> store[k]]

\* The engine's answer to a delete: a key that is not stored is no error.
StoreDeleteStrict(store, id, eng) ==
    IF id \notin DOMAIN store THEN "NotFoundError" ELSE eng

StoreDeleteAnswer(store, id, eng) == eng

\* IDBObjectStore.get: the record, or undefined (<<>>) for a key not stored.
StoreGet(store, id) == IF id \in DOMAIN store THEN <<store[id]>> ELSE <<>>

----------------------------------------------------------------------------
(* Inputs *)

Ids == {1, 2}
Years == {2010, 2011}
TitleA == <<"A", "b">>
GenreA == <<"a">>
DirectorA == <<"B">>
PosterA == <<"p">>

BaseMovie ==
    [title |-> TitleA, year |-> 2010, genre |-> GenreA, director |-> DirectorA]

RequiredFields == {"title", "year", "genre", "director"}

\* o without field f
Without(o, f) == [g \in DOMAIN o \ {f} |-> o[g]]

\* Movie objects that pass the required-field check.
ValidMovies ==
    { ObjectAssign([title |-> TitleA, year |-> y, genre |-> GenreA,
                    director |-> DirectorA], extra) :
        y \in Years,
        extra \in { <<>>, [poster |-> PosterA], [id |-> 0], [id |-> 1],
                     [id |-> 2, poster |-> PosterA] } }

\* Movie objects with one required field absent or empty.
InvalidMovies ==
    { Without(BaseMovie, f) : f \in RequiredFields }
      \cup { SetField(BaseMovie, f, IF f \in NumFields THEN 0 ELSE <<>>) :
               f \in RequiredFields }

UpdateInputs ==
    { [year |-> y] : y \in Years }
      \cup { [id |-> i] : i \in Ids }
      \cup { [poster |-> PosterA] }

SettingKeys == {"theme"}
SettingValues == {<<"d">>}

\* The settings store as earlier sessions may have left it: empty, or holding
\* one setting saved before this session began.
InitialSettings ==
    { <<>>,
      [k \in SettingKeys |->
          [key |-> k, value |-> CHOOSE v \in SettingValues : TRUE,
           updated_at |-> toISOString(0)]] }

----------------------------------------------------------------------------
(* State *)

\* No controller flow is in progress.  A flow that has finished leaves its
\* name in done and whether it succeeded in ok; while a flow runs, pc is the
\* await it has reached, queue the Items its loop has still to write, squeue
\* the settings it has still to write, source the list it parsed from its
\* file, empty whether it found the Item collection empty, count the writes
\* that succeeded, from the name of its file and taken the history the file
\* carries (see createBackup).
Idle ==
    [name |-> "idle", pc |-> "", done |-> "", ok |-> TRUE, queue |-> <<>>,
     squeue |-> <<>>, source |-> <<>>, empty |-> FALSE, count |-> 0,
     from |-> "", taken |-> <<>>, n |-> 0]

\* A notification: its type and the number its message carries, if any.
Note(type) == [type |-> type, count |-> <<>>]

Counted(type, n) == [type |-> type, count |-> <<n>>]

\* The page before the first render: no list shown, no notification, the
\* form not in its loading state.  notice holds the notifications of the
\* last handler step that showed any, in the order they were shown.
Blank == [shown |-> <<>>, notice |-> <<>>, loading |-> FALSE]

\* The delay of the search timer, in milliseconds.
Debounce == 300

\* The search box untouched.  input is the text in the box, query is
\* this.searchQuery, timers the timers set and not yet fired or cleared,
\* handle the id in searchTimeout (0: undefined), made the number of timers
\* set so far, since the milliseconds since the last input event (counted up
\* to Debounce), pending the filter queries whose answer has not been
\* rendered yet and issued the texts of all queries made.
Quiet ==
    [input |-> <<>>, query |-> <<>>, timers |-> <<>>, handle |-> 0, made |-> 0,
     since |-> Debounce, pending |-> <<>>, issued |-> <<>>]

Init ==
    /\ db = "null"
    /\ movies = <<>>
    /\ settings \in InitialSettings
    /\ clock = 1
    /\ last = [op |-> "constructor", id |-> 0, arg |-> <<>>, res |-> Resolve(<<>>),
               reqs |-> <<>>, after |-> ""]
    /\ localStorage = <<>>
    /\ mgrMovies = <<>>
    /\ flow = Idle
    /\ file = <<>>
    /\ view = Blank
    /\ other = Idle
    /\ box = Quiet

\* Time passes.
Tick ==
    /\ clock < MaxClock
    /\ clock' = clock + 1
    /\ UNCHANGED <<db, movies, settings, last, app>>

\* DatabaseManager.initDB
initDB(eng) ==
    /\ db = "null"
    /\ IF eng = "ok"
       THEN /\ db' = "open"
            /\ last' = Call("initDB", 0, <<>>, Resolve(<<>>), <<"open">>)
       ELSE /\ db' = db
            /\ last' = Call("initDB", 0, <<>>, Reject("StoreUnavailable"), <<"open">>)
    /\ UNCHANGED <<movies, settings, clock>>

----------------------------------------------------------------------------
(* DatabaseManager *)

\* DatabaseManager.getAllMovies
getAllMovies(eng) ==
    /\ last' = IF db = "null"
               THEN Call("getAllMovies", 0, <<>>, Reject("NotInitialized"), <<>>)
               ELSE IF eng # "ok"
               THEN Call("getAllMovies", 0, <<>>, Reject("ReadError"), <<"getAll">>)
               ELSE Call("getAllMovies", 0, <<>>, Resolve(GetAll(movies)), <<"getAll">>)
    /\ UNCHANGED <<db, movies, settings, clock>>

\* DatabaseManager.getMovie
getMovie(id, eng) ==
    /\ last' = IF db = "null"
               THEN Call("getMovie", id, <<>>, Reject("TypeError"), <<>>)
               ELSE IF eng # "ok"
               THEN Call("getMovie", id, <<>>, Reject(eng), <<"get">>)
               ELSE Call("getMovie", id, <<>>, Resolve(StoreGet(movies, id)), <<"get">>)
    /\ UNCHANGED <<db, movies, settings, clock>>

\* The required-field check of addMovie.
MissingRequiredNoYear(movie) ==
    \E f \in RequiredFields \ {"year"} : ~Truthy(movie, f)

MissingRequired(movie) == \E f \in RequiredFields : ~Truthy(movie, f)

\* The record addMovie hands to store.add: the id defaults to Date.now() (read
\* at t0), then created_at and updated_at are stamped from two further
\* readings of the clock (t1, t2).
StampedRequiredOnly(movie, t0, t1, t2) ==
    LET withId == IF Truthy(movie, "id") THEN movie ELSE SetField(movie, "id", t0)
        kept == [f \in DOMAIN withId \cap (RequiredFields \cup {"id"}) |-> withId[f]]
    IN  SetField(SetField(kept, "created_at", toISOString(t1)),
                 "updated_at", toISOString(t2))

Stamped(movie, t0, t1, t2) ==
    LET withId == IF Truthy(movie, "id") THEN movie ELSE SetField(movie, "id", t0)
    IN  SetField(SetField(withId, "created_at", toISOString(t1)),
                 "updated_at", toISOString(t2))

\* The rejection addMovie makes of an engine error.
AddError(name) ==
    CASE name = "ConstraintError" -> "DuplicateId"
      [] name = "QuotaExceededError" -> "QuotaExceeded"
      [] OTHER -> "WriteError"

\* The engine's answer to a request that stores rec: a record under a new key
\* needs room in the storage budget.
StoreWrite(store, rec, eng) ==
    IF rec.id \notin DOMAIN store /\ Cardinality(DOMAIN store) >= MaxItems
    THEN "QuotaExceededError"
    ELSE eng

\* IDBObjectStore.add: a key that is already stored is a ConstraintError.
StoreAddOverwrite(store, rec, eng) == StoreWrite(store, rec, eng)

StoreAdd(store, rec, eng) ==
    IF rec.id \in DOMAIN store THEN "ConstraintError" ELSE StoreWrite(store, rec, eng)

\* DatabaseManager.addMovie called with something that is not an object.
addMovieNonObject ==
    /\ last' = IF db = "null"
               THEN Call("addMovie", 0, <<>>, Reject("NotInitialized"), <<>>)
               ELSE Call("addMovie", 0, <<>>, Reject("InvalidData"), <<>>)
    /\ UNCHANGED <<db, movies, settings, clock>>

\* DatabaseManager.addMovie
addMovie(movie, t1, t2, eng) ==
    LET rec == Stamped(movie, clock, t1, t2)
        answer == StoreAdd(movies, rec, eng)
    IN  IF db = "null"
        THEN /\ last' = Call("addMovie", 0, movie, Reject("NotInitialized"), <<>>)
             /\ UNCHANGED <<db, movies, settings, clock>>
        ELSE IF MissingRequired(movie)
        THEN /\ last' = Call("addMovie", 0, movie, Reject("MissingFields"), <<>>)
             /\ UNCHANGED <<db, movies, settings, clock>>
        ELSE /\ clock' = t2
             /\ IF answer = "ok"
                THEN /\ movies' = StorePut(movies, rec)
                     /\ last' = Call("addMovie", rec.id, movie, Resolve(<<rec.id>>),
                                     <<"add">>)
                ELSE /\ movies' = movies
                     /\ last' = Call("addMovie", rec.id, movie,
                                     Reject(AddError(answer)), <<"add">>)
             /\ UNCHANGED <<db, settings>>

\* The record updateMovie writes back: the stored record with the updates
\* assigned over it and updated_at stamped.
MergedRestamped(movie, updates, t) ==
    SetField(SetField(ObjectAssign(movie, updates), "updated_at", toISOString(t)),
             "created_at", toISOString(t))

MergedNotAssigned(movie, updates, t) ==
    SetField(movie, "updated_at", toISOString(t))

Merged(movie, updates, t) ==
    SetField(ObjectAssign(movie, updates), "updated_at", toISOString(t))

\* DatabaseManager.updateMovie
updateMovie(id, updates, g, p) ==
    IF db = "null"
    THEN /\ last' = Call("updateMovie", id, updates, Reject("TypeError"), <<>>)
         /\ UNCHANGED <<db, movies, settings, clock>>
    ELSE IF g # "ok"
    THEN /\ last' = Call("updateMovie", id, updates, Reject(g), <<"get">>)
         /\ UNCHANGED <<db, movies, settings, clock>>
    ELSE IF id \notin DOMAIN movies
    THEN /\ last' = Call("updateMovie", id, updates, Reject("NotFound"), <<"get">>)
         /\ UNCHANGED <<db, movies, settings, clock>>
    ELSE LET rec == Merged(movies[id], updates, clock)
             answer == StoreWrite(movies, rec, p)
         IN  /\ IF answer = "ok"
                THEN /\ movies' = StorePut(movies, rec)
                     /\ last' = Call("updateMovie", id, updates, Resolve(<<rec>>),
                                     <<"get", "put">>)
                ELSE /\ movies' = movies
                     /\ last' = Call("updateMovie", id, updates, Reject(answer),
                                     <<"get", "put">>)
             /\ UNCHANGED <<db, settings, clock>>

\* DatabaseManager.deleteMovie
deleteMovie(id, eng) ==
    IF db = "null"
    THEN /\ last' = Call("deleteMovie", id, <<>>, Reject("TypeError"), <<>>)
         /\ UNCHANGED <<db, movies, settings, clock>>
    ELSE IF StoreDeleteAnswer(movies, id, eng) # "ok"
    THEN /\ last' = Call("deleteMovie", id, <<>>,
                         Reject(StoreDeleteAnswer(movies, id, eng)), <<"delete">>)
         /\ UNCHANGED <<db, movies, settings, clock>>
    ELSE /\ movies' = StoreDelete(movies, id)
         /\ last' = Call("deleteMovie", id, <<>>, Resolve(<<TRUE>>), <<"delete">>)
         /\ UNCHANGED <<db, settings, clock>>

\* DatabaseManager.saveSetting
saveSetting(key, value, eng) ==
    IF db = "null"
    THEN /\ last' = Call("saveSetting", 0, <<>>, Reject("TypeError"), <<>>)
         /\ UNCHANGED <<db, movies, settings, clock>>
    ELSE IF eng # "ok"
    THEN /\ last' = Call("saveSetting", 0, <<>>, Reject(eng), <<"put">>)
         /\ UNCHANGED <<db, movies, settings, clock>>
    ELSE /\ settings' = [k \in DOMAIN settings \cup {key} |->
                            IF k = key
                            THEN [key |-> key, value |-> value,
                                  updated_at |-> toISOString(clock)]
                            ELSE settings[k]]
         /\ last' = Call("saveSetting", 0, <<>>, Resolve(<<TRUE>>), <<"put">>)
         /\ UNCHANGED <<db, movies, clock>>

\* DatabaseManager.getSetting: the value, or null (<<>>) for an absent key.
getSetting(key, eng) ==
    /\ last' = IF db = "null"
               THEN Call("getSetting", 0, <<>>, Reject("TypeError"), <<>>)
               ELSE IF eng # "ok"
               THEN Call("getSetting", 0, <<>>, Reject(eng), <<"get">>)
               ELSE Call("getSetting", 0, <<>>,
                         Resolve(IF key \in DOMAIN settings
                                 THEN <<settings[key].value>> ELSE <<>>),
                         <<"get">>)
    /\ UNCHANGED <<db, movies, settings, clock>>

\* The number of clear requests clearAll waits for.
ClearTotal == 2

\* clearAll resolves once the count of succeeded clear requests reaches total.
ClearAllResolvesEarly(completed) == completed >= 1

ClearAllResolves(completed) == completed = ClearTotal

\* DatabaseManager.clearAll: one clear request on each store, each in its own
\* transaction; em and es are the engine's answers to the two, kept as the
\* argument of the call's record.
clearAll(em, es) ==
    LET answers == [movies |-> em, settings |-> es]
        completed == Cardinality({f \in DOMAIN answers : answers[f] = "ok"})
    IN  IF db = "null"
        THEN /\ last' = Call("clearAll", 0, <<>>, Reject("TypeError"), <<>>)
             /\ UNCHANGED <<db, movies, settings, clock>>
        ELSE /\ movies' = IF em = "ok" THEN <<>> ELSE movies
             /\ settings' = IF es = "ok" THEN <<>> ELSE settings
             /\ last' = Call("clearAll", 0, answers,
                             IF ClearAllResolves(completed)
                             THEN Resolve(<<TRUE>>)
                             ELSE Reject(IF em # "ok" THEN em ELSE es),
                             <<"clear", "clear">>)
             /\ UNCHANGED <<db, clock>>

----------------------------------------------------------------------------
(* DatabaseManager.searchMovies *)

\* The sentinel of the genre filter.
GenreAll == <<"a", "l", "l">>

\* Number.prototype.toString of a non-negative integer: its decimal digits.
RECURSIVE NumberToString(_)
NumberToString(n) ==
    IF n < 10 THEN <<n>> ELSE Append(NumberToString(n \div 10), n % 10)

\* The integer a sequence of decimal digits denotes.
RECURSIVE ParseDigits(_)
ParseDigits(d) ==
    IF d = <<>> THEN 0
    ELSE ParseDigits(SubSeq(d, 1, Len(d) - 1)) * 10 + d[Len(d)]

\* parseInt of a filter's year: the Number is converted to its string, and the
\* digits of the string are parsed.
parseInt(n) == ParseDigits(NumberToString(n))

\* filters.search: the query occurs in the title, the genre or the director.
MatchSearchTitleOnly(m, search) ==
    includes(toLowerCase(m.title), toLowerCase(search))

MatchSearch(m, search) ==
    LET query == toLowerCase(search)
    IN  \/ includes(toLowerCase(m.title), query)
        \/ includes(toLowerCase(m.genre), query)
        \/ includes(toLowerCase(m.director), query)

\* yearRange: min <= year <= max
InYearRange(m, range) == m.year >= range[1] /\ m.year <= range[2]

\* The filter stages of searchMovies, applied one after the other
\* (Array.prototype.filter is SelectSeq).
ApplyFilters(all, filters) ==
    LET s1 == IF Truthy(filters, "search")
              THEN SelectSeq(all, LAMBDA m : MatchSearch(m, filters.search))
              ELSE all
        s2 == IF Truthy(filters, "genre") /\ filters.genre # GenreAll
              THEN SelectSeq(s1, LAMBDA m :
                       includes(toLowerCase(m.genre), toLowerCase(filters.genre)))
              ELSE s1
        s3 == IF Truthy(filters, "year")
              THEN SelectSeq(s2, LAMBDA m : m.year = parseInt(filters.year))
              ELSE s2
        s4 == IF Truthy(filters, "yearRange")
              THEN SelectSeq(s3, LAMBDA m : InYearRange(m, filters.yearRange))
              ELSE s3
        s5 == IF Truthy(filters, "director")
              THEN SelectSeq(s4, LAMBDA m :
                       includes(toLowerCase(m.director), toLowerCase(filters.director)))
              ELSE s4
    IN  s5

\* The collation weight of a letter: at level 1 its place in the alphabet, at
\* level 3 its case (lower case first), as String.prototype.localeCompare
\* orders letters.
Weight(c, level) ==
    IF level = 1
    THEN CASE LowerChar(c) = "a" -> 1
           [] LowerChar(c) = "b" -> 2
           [] LowerChar(c) = "l" -> 3
           [] OTHER -> 4
    ELSE IF LowerChar(c) = c THEN 0 ELSE 1

\* Lexicographic comparison of two texts by the weights of a level: -1, 0 or 1.
RECURSIVE LexCompare(_, _, _)
LexCompare(s, t, level) ==
    IF s = <<>> THEN (IF t = <<>> THEN 0 ELSE -1)
    ELSE IF t = <<>> THEN 1
    ELSE IF Weight(Head(s), level) < Weight(Head(t), level) THEN -1
    ELSE IF Weight(Head(s), level) > Weight(Head(t), level) THEN 1
    ELSE LexCompare(Tail(s), Tail(t), level)

\* String.prototype.localeCompare
localeCompare(s, t) ==
    LET p == LexCompare(s, t, 1)
    IN  IF p # 0 THEN p ELSE LexCompare(s, t, 3)

\* The comparator searchMovies hands to Array.prototype.sort.
CompareYearAscOnly(a, b, sortBy) ==
    CASE sortBy = "year-asc" -> a.year - b.year
      [] sortBy = "year-desc" -> a.year - b.year
      [] OTHER -> 0

Compare(a, b, sortBy) ==
    CASE sortBy = "title-asc" -> localeCompare(a.title, b.title)
      [] sortBy = "title-desc" -> localeCompare(b.title, a.title)
      [] sortBy = "year-asc" -> a.year - b.year
      [] sortBy = "year-desc" -> b.year - a.year
      [] sortBy = "created-asc" -> DateParse(a.created_at) - DateParse(b.created_at)
      [] sortBy = "created-desc" -> DateParse(b.created_at) - DateParse(a.created_at)
      [] OTHER -> 0

\* Array.prototype.sort is stable: x goes behind every element that does not
\* compare greater than it.
RECURSIVE InsertSorted(_, _, _)
InsertSorted(s, x, sortBy) ==
    IF s = <<>> THEN <<x>>
    ELSE LET e == s[Len(s)]
         IN  IF Compare(e, x, sortBy) > 0
             THEN Append(InsertSorted(SubSeq(s, 1, Len(s) - 1), x, sortBy), e)
             ELSE Append(s, x)

RECURSIVE Sort(_, _)
Sort(s, sortBy) ==
    IF s = <<>> THEN <<>>
    ELSE InsertSorted(Sort(SubSeq(s, 1, Len(s) - 1), sortBy), s[Len(s)], sortBy)

ApplySort(s, filters) ==
    IF Truthy(filters, "sortBy") THEN Sort(s, filters.sortBy) ELSE s

\* The limit searchMovies takes when filters.limit is not set.
DefaultLimit == 50

\* Array.prototype.slice(from, to) for 0 <= from
Slice(s, from, to) ==
    LET hi == IF to < Len(s) THEN to ELSE Len(s)
    IN  IF from >= hi THEN <<>> ELSE SubSeq(s, from + 1, hi)

ApplyPagination(s, filters) ==
    IF Truthy(filters, "offset") \/ Truthy(filters, "limit")
    THEN LET offset == IF Truthy(filters, "offset") THEN filters.offset ELSE 0
             limit == IF Truthy(filters, "limit") THEN filters.limit ELSE DefaultLimit
         IN  Slice(s, offset, offset + limit)
    ELSE s

\* What searchMovies resolves with over the records of store.
SearchResult(store, filters) ==
    ApplyPagination(ApplySort(ApplyFilters(GetAll(store), filters), filters), filters)

\* DatabaseManager.searchMovies
searchMovies(filters, eng) ==
    /\ last' = IF db = "null"
               THEN Call("searchMovies", 0, filters, Reject("TypeError"), <<>>)
               ELSE IF eng # "ok"
               THEN Call("searchMovies", 0, filters, Reject(eng), <<"getAll">>)
               ELSE Call("searchMovies", 0, filters,
                         Resolve(SearchResult(movies, filters)), <<"getAll">>)
    /\ UNCHANGED <<db, movies, settings, clock>>

----------------------------------------------------------------------------
(* The Record Store under arbitrary calls *)

Next ==
    \/ Tick
    \/ \E eng \in ReadOutcomes : initDB(eng) /\ UNCHANGED app
    \/ \E eng \in ReadOutcomes : getAllMovies(eng) /\ UNCHANGED app
    \/ \E id \in Ids, eng \in NoFault : getMovie(id, eng) /\ UNCHANGED app
    \/ addMovieNonObject /\ UNCHANGED app
    \/ \E movie \in InvalidMovies : addMovie(movie, clock, clock, "ok") /\ UNCHANGED app
    \/ \E movie \in ValidMovies, t1 \in clock..MaxClock, eng \in NoFault :
          \E t2 \in t1..MaxClock : addMovie(movie, t1, t2, eng) /\ UNCHANGED app
    \/ \E id \in Ids, updates \in UpdateInputs, g \in NoFault, p \in NoFault :
          updateMovie(id, updates, g, p) /\ UNCHANGED app
    \/ \E id \in Ids, eng \in ReadOutcomes : deleteMovie(id, eng) /\ UNCHANGED app
    \/ \E key \in SettingKeys, eng \in NoFault : getSetting(key, eng) /\ UNCHANGED app
    \/ \E em \in ReadOutcomes, es \in ReadOutcomes : clearAll(em, es) /\ UNCHANGED app

Spec == Init /\ [][Next]_vars

----------------------------------------------------------------------------
(* searchMovies over stored collections *)

\* The stored Items queried: three profiles of title, genre, director and
\* creation instant, each in two years.
QueryProfiles ==
    { [title |-> TitleA, genre |-> GenreA, director |-> <<"A">>,
       created_at |-> toISOString(2)],
      [title |-> <<"a">>, genre |-> <<"B", "a">>, director |-> <<"a", "B">>,
       created_at |-> toISOString(1)],
      [title |-> <<"a">>, genre |-> GenreA, director |-> <<"A">>,
       created_at |-> toISOString(1)] }

QueryBodies ==
    { ObjectAssign(profile, [year |-> y, updated_at |-> toISOString(2)]) :
        profile \in QueryProfiles, y \in Years }

QueryStores ==
    UNION { { [k \in K |-> SetField(body[k], "id", k)] : body \in [K -> QueryBodies] } :
            K \in SUBSET (1..MaxStored) }

SortOptions ==
    {"title-asc", "title-desc", "year-asc", "year-desc", "created-asc", "created-desc"}

QueryFilters ==
    { ObjectAssign(ObjectAssign(a, b), c) :
        a \in { <<>>, [search |-> <<"b">>], [search |-> <<"A", "B">>] },
        b \in { <<>>, [genre |-> GenreAll], [genre |-> <<"B">>] },
        c \in { <<>>, [director |-> <<"b">>] } }
      \cup { [year |-> 2010], [year |-> 0], [search |-> <<>>],
             [yearRange |-> <<2011, 2011>>],
             [yearRange |-> <<2010, 2011>>, search |-> <<"b">>],
             [year |-> 2011, yearRange |-> <<2010, 2010>>],
             [year |-> 2010, genre |-> <<"B">>, director |-> <<"b">>] }
      \cup { [sortBy |-> o] : o \in SortOptions \cup {"rating", ""} }
      \cup { [sortBy |-> o, search |-> <<"b">>] : o \in {"year-asc", "year-desc"} }
      \cup { [limit |-> 1], [offset |-> 1], [offset |-> 1, limit |-> 1],
             [limit |-> 0], [offset |-> 1, limit |-> 0],
             [offset |-> 0, limit |-> 2, sortBy |-> "year-desc"] }

InitQuery ==
    /\ db = "open"
    /\ movies \in QueryStores
    /\ settings = <<>>
    /\ clock = MaxClock
    /\ last = [op |-> "initDB", id |-> 0, arg |-> <<>>, res |-> Resolve(<<>>),
               reqs |-> <<"open">>, after |-> ""]
    /\ localStorage = <<>>
    /\ mgrMovies = <<>>
    /\ flow = Idle
    /\ file = <<>>
    /\ view = Blank
    /\ other = Idle
    /\ box = Quiet

NextQuery ==
    \E filters \in QueryFilters, eng \in NoFault :
        searchMovies(filters, eng) /\ UNCHANGED app

SpecQuery == InitQuery /\ [][NextQuery]_vars

----------------------------------------------------------------------------
(* JSON *)

\* The order in which the properties of a movie object are written out.
\* The properties without the id: what a page that did not keep the id in
\* its list would write.
FieldOrderNoId ==
    <<"title", "year", "genre", "director", "poster", "created_at", "updated_at">>

FieldOrder ==
    <<"title", "year", "genre", "director", "poster", "id", "created_at", "updated_at">>

\* The value null, set apart from every text of the model.
Null == <<"null">>

\* JSON.stringify of one property: a Number is written as its decimal digits,
\* null as null, a text as a string.
StringifyValue(f, v) ==
    IF f \in NumFields THEN [k |-> f, t |-> "number", v |-> NumberToString(v)]
    ELSE IF f = "poster" /\ v = Null THEN [k |-> f, t |-> "null", v |-> <<>>]
    ELSE [k |-> f, t |-> "string", v |-> v]

\* JSON.parse of one property.
ParseValue(e) ==
    CASE e.t = "number" -> ParseDigits(e.v)
      [] e.t = "null" -> Null
      [] OTHER -> e.v

\* JSON.stringify of an object: its properties, in order.
StringifyObject(o) ==
    LET present == SelectSeq(FieldOrder, LAMBDA f : f \in DOMAIN o)
    IN  [i \in 1..Len(present) |-> StringifyValue(present[i], o[present[i]])]

\* JSON.parse of an object.
ParseObject(es) ==
    [f \in {es[i].k : i \in 1..Len(es)} |->
        ParseValue(es[CHOOSE i \in 1..Len(es) : es[i].k = f])]

StringifyList(list) == [i \in 1..Len(list) |-> StringifyObject(list[i])]

ParseList(items) == [i \in 1..Len(items) |-> ParseObject(items[i])]

\* JSON.stringify of an array of movie objects.
ArrayText(list) == [kind |-> "array", items |-> StringifyList(list)]

\* A text JSON.parse throws on.
Malformed == [kind |-> "malformed"]

----------------------------------------------------------------------------
(* MovieManager: startup *)

\* The record in last before any DatabaseManager call.
NoCall ==
    [op |-> "constructor", id |-> 0, arg |-> <<>>, res |-> Resolve(<<>>),
     reqs |-> <<>>, after |-> ""]

\* A flow ends: its name goes to done, its outcome to ok; of the rest only
\* what startup found (source, empty) is kept.
Finish(f, name, ok) ==
    [Idle EXCEPT !.done = name, !.ok = ok, !.n = f.n,
                 !.source = IF name = "init" THEN f.source ELSE <<>>,
                 !.empty = IF name = "init" THEN f.empty ELSE FALSE]

\* An Item as an earlier session stored it.
YearOf(id) == IF id = 1 THEN 2010 ELSE 2011

StoredMovie(id) ==
    [id |-> id, title |-> TitleA, year |-> YearOf(id), genre |-> GenreA,
     director |-> DirectorA, poster |-> PosterA,
     created_at |-> toISOString(0), updated_at |-> toISOString(0)]

\* The movies store as earlier sessions may have left it.
PersistedStores == { [k \in K |-> StoredMovie(k)] : K \in {{}, {1}, {1, 2}} }

\* A movie object of the legacy flat store.
LegacyMovie(id, y) ==
    [id |-> id, title |-> TitleA, year |-> y, genre |-> GenreA, director |-> DirectorA]

LegacyLists ==
    { <<>>,
      <<LegacyMovie(1, 2010), LegacyMovie(2, 2011)>>,
      <<LegacyMovie(1, 2010), LegacyMovie(1, 2011), LegacyMovie(2, 2011)>>,
      <<Without(LegacyMovie(1, 2010), "title"), LegacyMovie(2, 2011)>>,
      <<Without(LegacyMovie(1, 2010), "id")>> }

\* The localStorage entry 'myMovies': none, a text that does not parse, or a
\* JSON array of movie objects.
LegacyEntries ==
    {<<>>, <<Malformed>>} \cup { <<ArrayText(list)>> : list \in LegacyLists }

\* loadMovies keeps the records that have an id and a title.
Loaded(all) == SelectSeq(all, LAMBDA m : Truthy(m, "id") /\ Truthy(m, "title"))

\* this.movies after loadMovies, from the outcome of getAllMovies.
LoadedList(res) == IF res.ok THEN Loaded(res.value) ELSE <<>>

\* Where init goes after initDB: a rejection is caught at the end of init.
InitAfterOpenAlways(opened) == "migrate"

InitAfterOpen(opened) == IF opened THEN "migrate" ELSE "failed"

\* MovieManager.init: await this.db.initDB()
InitOpen(eng) ==
    /\ flow.name = "init"
    /\ flow.pc = "open"
    /\ initDB(eng)
    /\ LET pc == InitAfterOpen(last'.res.ok)
       IN  IF pc = "failed"
           THEN /\ flow' = Finish(flow, "init", FALSE)
                /\ view' = [view EXCEPT !.notice = <<Note("error")>>]
           ELSE /\ flow' = [flow EXCEPT !.pc = pc]
                /\ view' = view
    /\ UNCHANGED <<localStorage, mgrMovies, file>>

\* The condition under which migrateFromLocalStorage writes.
MigrationNeededAlways(existing, list) == Len(list) > 0

MigrationNeeded(existing, list) == Len(existing) = 0 /\ Len(list) > 0

\* MovieManager.migrateFromLocalStorage up to its first write: the entry is
\* read and parsed and the stored Items are fetched.
MigrateBegin(eng) ==
    /\ flow.name = "init"
    /\ flow.pc = "migrate"
    /\ IF localStorage = <<>>
       THEN /\ flow' = [flow EXCEPT !.pc = "load"]
            /\ UNCHANGED <<db, movies, settings, clock, last, localStorage, view>>
       ELSE IF localStorage[1].kind # "array"
       THEN /\ flow' = [flow EXCEPT !.pc = "load"]
            /\ view' = [view EXCEPT !.notice = <<Note("error")>>]
            /\ UNCHANGED <<db, movies, settings, clock, last, localStorage>>
       ELSE /\ getAllMovies(eng)
            /\ LET list == ParseList(localStorage[1].items)
               IN  IF ~last'.res.ok
                   THEN /\ flow' = [flow EXCEPT !.pc = "load"]
                        /\ view' = [view EXCEPT !.notice = <<Note("error")>>]
                        /\ localStorage' = localStorage
                   ELSE IF MigrationNeeded(last'.res.value, list)
                   THEN /\ flow' = [flow EXCEPT !.pc = "migrate-add", !.queue = list,
                                                !.source = list,
                                                !.empty = (last'.res.value = <<>>)]
                        /\ UNCHANGED <<localStorage, view>>
                   ELSE /\ flow' = [flow EXCEPT !.pc = "load"]
                        /\ localStorage' = <<>>
                        /\ view' = view
    /\ UNCHANGED <<mgrMovies, file>>

\* What is left of the migration loop after an add: a rejection leaves the
\* loop for the catch of migrateFromLocalStorage.
MigrateRest(queue, ok) == IF ok THEN Tail(queue) ELSE <<>>

\* MovieManager.migrateFromLocalStorage: one add of the loop and, after the
\* last, the removal of the entry.
MigrateAdd(t1, t2, eng) ==
    /\ flow.name = "init"
    /\ flow.pc = "migrate-add"
    /\ addMovie(Head(flow.queue), t1, t2, eng)
    /\ LET rest == MigrateRest(flow.queue, last'.res.ok)
       IN  IF ~last'.res.ok
           THEN /\ flow' = [flow EXCEPT !.pc = "load", !.queue = rest]
                /\ view' = [view EXCEPT !.notice = <<Note("error")>>]
                /\ localStorage' = localStorage
           ELSE IF rest = <<>>
           THEN /\ flow' = [flow EXCEPT !.pc = "load", !.queue = rest]
                /\ view' = [view EXCEPT
                              !.notice = <<Counted("success", Len(flow.source))>>]
                /\ localStorage' = <<>>
           ELSE /\ flow' = [flow EXCEPT !.queue = rest]
                /\ UNCHANGED <<localStorage, view>>
    /\ UNCHANGED <<mgrMovies, file>>

\* MovieManager.init: await this.loadMovies(), then the first render.
InitLoad(eng) ==
    /\ flow.name = "init"
    /\ flow.pc = "load"
    /\ getAllMovies(eng)
    /\ mgrMovies' = LoadedList(last'.res)
    /\ view' = [view EXCEPT
                  !.shown = <<mgrMovies'>>,
                  !.notice = IF last'.res.ok THEN @ ELSE <<Note("error")>>]
    /\ flow' = Finish(flow, "init", TRUE)
    /\ UNCHANGED <<localStorage, file>>

InitStartup ==
    /\ db = "null"
    /\ movies \in PersistedStores
    /\ settings \in InitialSettings
    /\ clock = 1
    /\ last = NoCall
    /\ localStorage \in LegacyEntries
    /\ mgrMovies = <<>>
    /\ flow = [Idle EXCEPT !.name = "init", !.pc = "open"]
    /\ file = <<>>
    /\ view = Blank
    /\ other = Idle
    /\ box = Quiet

NextStartup ==
    \/ Tick
    \/ \E eng \in ReadOutcomes : InitOpen(eng) /\ UNCHANGED aside
    \/ \E eng \in ReadOutcomes : MigrateBegin(eng) /\ UNCHANGED aside
    \/ \E eng \in ReadOutcomes : MigrateAdd(clock, clock, eng) /\ UNCHANGED aside
    \/ \E eng \in ReadOutcomes : InitLoad(eng) /\ UNCHANGED aside

SpecStartup == InitStartup /\ [][NextStartup]_vars

----------------------------------------------------------------------------
(* MovieManager: the flows of the running page *)

\* String.prototype.trim
RECURSIVE trimStart(_)
trimStart(s) ==
    IF s # <<>> /\ Head(s) = " " THEN trimStart(Tail(s)) ELSE s

RECURSIVE trimEnd(_)
trimEnd(s) ==
    IF s # <<>> /\ s[Len(s)] = " " THEN trimEnd(SubSeq(s, 1, Len(s) - 1)) ELSE s

trim(s) == trimEnd(trimStart(s))

\* The years validateMovieForm accepts.
MinYear == 1900
MaxYear == 2030

\* The text of the year input: decimal digits, which an exponent part
\* ("e" and further digits) may follow; exp is <<>> when there is none.
YearText(n) == [int |-> NumberToString(n), exp |-> <<>>]

RECURSIVE Pow10(_)
Pow10(k) == IF k = 0 THEN 1 ELSE 10 * Pow10(k - 1)

\* The Number a text is coerced to by isNaN and by < and >: the digits
\* scaled by the exponent.
ToNumber(text) == ParseDigits(text.int) * Pow10(ParseDigits(text.exp))

\* The year check of validateMovieForm: the text is not empty and the
\* Number it is coerced to lies within the range.
YearInRange(text) ==
    /\ text.int # <<>>
    /\ ToNumber(text) >= MinYear
    /\ ToNumber(text) <= MaxYear

\* MovieManager.validateMovieForm over the values of the form's inputs.
validateMovieForm(form) ==
    /\ trim(form.title) # <<>>
    /\ YearInRange(form.year)
    /\ trim(form.genre) # <<>>
    /\ trim(form.director) # <<>>

\* parseInt of a text: the integer of its leading digits; what follows them,
\* an exponent part included, is ignored.
parseIntText(text) == ParseDigits(text.int)

\* The movie object saveMovie builds from the form; now is Date.now().
MovieData(form, now) ==
    [title |-> trim(form.title),
     year |-> parseIntText(form.year),
     genre |-> trim(form.genre),
     director |-> trim(form.director),
     poster |-> IF trim(form.poster) = <<>> THEN Null ELSE trim(form.poster),
     id |-> IF form.movieId # <<>> THEN ParseDigits(form.movieId) ELSE now]

\* The form as the user may have filled it in: a new movie, an edit of the
\* movie with id 1, a form whose title is blank, a form whose year is 1899
\* and a form whose year is typed with an exponent, 2e3.
NewForm ==
    [movieId |-> <<>>, title |-> <<"A", "b", " ">>, year |-> YearText(2010),
     genre |-> GenreA, director |-> DirectorA, poster |-> <<>>]

SaveForms ==
    { NewForm,
      [NewForm EXCEPT !.movieId = NumberToString(1), !.year = YearText(2011)],
      [NewForm EXCEPT !.title = <<" ">>],
      [NewForm EXCEPT !.year = YearText(1899)],
      [NewForm EXCEPT !.year = [int |-> <<2>>, exp |-> <<3>>]] }

\* The user starts an operation on the idle page; n counts the operations
\* started in this session.
Begin(name) == [Idle EXCEPT !.name = name, !.n = flow.n + 1]

\* The form can be submitted: setFormLoadingState(true) disables its submit
\* button and its inputs until setFormLoadingState(false).
SaveEnabledAlways(loading) == TRUE

SaveEnabled(loading) == ~loading

\* MovieManager.saveMovie up to the answer of getMovie in saveMovieToDB.
SaveBegin(form, eng) ==
    /\ flow.name = "idle"
    /\ flow.n < MaxOps
    /\ SaveEnabled(view.loading)
    /\ IF ~validateMovieForm(form)
       THEN /\ flow' = Finish(Begin("save"), "save", FALSE)
            /\ view' = [view EXCEPT !.notice = <<Note("error")>>]
            /\ UNCHANGED <<db, movies, settings, clock, last>>
       ELSE LET movieData == MovieData(form, clock)
            IN  /\ getMovie(movieData.id, eng)
                /\ IF ~last'.res.ok
                   THEN /\ flow' = Finish(Begin("save"), "save", FALSE)
                        /\ view' = [view EXCEPT !.notice = <<Note("error")>>]
                   ELSE /\ flow' = [Begin("save") EXCEPT
                                        !.pc = IF last'.res.value # <<>>
                                               THEN "update" ELSE "add",
                                        !.queue = <<movieData>>]
                        /\ view' = [view EXCEPT !.loading = TRUE]
    /\ UNCHANGED <<localStorage, mgrMovies, file>>

\* MovieManager.saveMovieToDB: the update or the add.
SaveWrite(t1, t2, eng) ==
    /\ flow.name = "save"
    /\ flow.pc \in {"add", "update"}
    /\ LET movieData == Head(flow.queue)
       IN  IF flow.pc = "add"
           THEN addMovie(movieData, t1, t2, eng)
           ELSE updateMovie(movieData.id, movieData, "ok", eng)
    /\ IF last'.res.ok
       THEN /\ flow' = [flow EXCEPT !.pc = "reload", !.queue = <<>>]
            /\ view' = view
       ELSE /\ flow' = Finish(flow, "save", FALSE)
            /\ view' = [view EXCEPT !.notice = <<Note("error")>>, !.loading = FALSE]
    /\ UNCHANGED <<localStorage, mgrMovies, file>>

\* MovieManager.deleteMovie (the confirmation given) up to the answer of the
\* store; the cards shown carry the ids that can be deleted.
DeleteBegin(id, eng) ==
    /\ flow.name = "idle"
    /\ flow.n < MaxOps
    /\ \E i \in 1..Len(mgrMovies) : mgrMovies[i].id = id
    /\ deleteMovie(id, eng)
    /\ IF last'.res.ok
       THEN /\ flow' = [Begin("delete") EXCEPT !.pc = "reload"]
            /\ view' = view
       ELSE /\ flow' = Finish(Begin("delete"), "delete", FALSE)
            /\ view' = [view EXCEPT !.notice = <<Note("error")>>]
    /\ UNCHANGED <<localStorage, mgrMovies, file>>

\* The flow has reached its reload.
AtReload ==
    \/ flow.pc = "reload"
    \/ flow.pc = "write" /\ flow.queue = <<>> /\ flow.squeue = <<>>

\* The success notification of a flow: an import tells importedCount, a
\* restore the length of the list of the backup.
SuccessNote(f) ==
    CASE f.name = "import" -> Counted("success", f.count)
      [] f.name = "restore" -> Counted("success", Len(f.source))
      [] OTHER -> Note("success")

\* The end of a mutating flow: loadMovies (which shows its own notification
\* when the read fails), the render of the list and the success
\* notification; a save leaves the loading state.  (No search or genre
\* filter is active, so the list filterAndDisplayMovies renders is the list
\* loaded.)
Reload(eng) ==
    /\ flow.name \in {"save", "delete", "import", "restore"}
    /\ AtReload
    /\ getAllMovies(eng)
    /\ mgrMovies' = LoadedList(last'.res)
    /\ view' = [shown |-> <<mgrMovies'>>,
                notice |-> (IF last'.res.ok THEN <<>> ELSE <<Note("error")>>)
                              \o <<SuccessNote(flow)>>,
                loading |-> IF flow.name = "save" THEN FALSE ELSE view.loading]
    /\ flow' = Finish(flow, flow.name, TRUE)
    /\ UNCHANGED <<localStorage, file>>

\* What the page held when a download was made; kept beside the file as
\* history, not part of its text.
Taken(list, stored) == [movies |-> list, settings |-> stored]

\* MovieManager.exportMovies: the download is named movie-collection-<date>.
exportMovies ==
    /\ flow.name = "idle"
    /\ flow.n < MaxOps
    /\ IF mgrMovies = <<>>
       THEN /\ view' = [view EXCEPT !.notice = <<Note("error")>>]
            /\ file' = file
       ELSE /\ file' = <<[name |-> "movie-collection", text |-> ArrayText(mgrMovies),
                          taken |-> Taken(mgrMovies, settings)]>>
            /\ view' = [view EXCEPT !.notice = <<Note("success")>>]
    /\ flow' = [flow EXCEPT !.n = @ + 1]
    /\ UNCHANGED <<db, movies, settings, clock, last, localStorage, mgrMovies>>

\* The filter of importMovies: title, year, genre and director are set.
ValidImport(movie) == ~MissingRequired(movie)

\* Every imported movie, whether its id is stored or not.
NewMoviesAll(valid, existing) == valid

\* The imported movies whose id is not among the stored ids.
NewMovies(valid, existing) ==
    SelectSeq(valid, LAMBDA m :
        ~("id" \in DOMAIN m /\ \E i \in 1..Len(existing) : existing[i].id = m.id))

\* MovieManager.importMovies (reader.onload) up to the answer of getAllMovies.
ImportBegin(f, eng) ==
    /\ flow.name = "idle"
    /\ flow.n < MaxOps
    /\ LET begun == [Begin("import") EXCEPT !.from = f.name, !.taken = f.taken]
           importedMovies == ParseList(f.text.items)
           validMovies == SelectSeq(importedMovies, ValidImport)
       IN  IF f.text.kind # "array" \/ validMovies = <<>>
           THEN /\ flow' = Finish(begun, "import", FALSE)
                /\ view' = [view EXCEPT !.notice = <<Note("error")>>]
                /\ UNCHANGED <<db, movies, settings, clock, last>>
           ELSE /\ getAllMovies(eng)
                /\ IF ~last'.res.ok
                   THEN /\ flow' = Finish(begun, "import", FALSE)
                        /\ view' = [view EXCEPT !.notice = <<Note("error")>>]
                   ELSE /\ flow' = [begun EXCEPT
                                        !.pc = "write",
                                        !.queue = NewMovies(validMovies, last'.res.value),
                                        !.source = importedMovies,
                                        !.empty = (last'.res.value = <<>>)]
                        /\ view' = view
    /\ UNCHANGED <<localStorage, mgrMovies, file>>

\* What is left of the loop of an import or a restore after an add: each add
\* has its own try/catch, so the loop goes on to the next movie either way.
BulkRestAbort(queue, ok) == IF ok THEN Tail(queue) ELSE <<>>

BulkRest(queue, ok) == Tail(queue)

\* One add of the loop of importMovies or of restoreBackup.
BulkAdd(t1, t2, eng) ==
    /\ flow.name \in {"import", "restore"}
    /\ flow.pc = "write"
    /\ flow.queue # <<>>
    /\ addMovie(Head(flow.queue), t1, t2, eng)
    /\ flow' = [flow EXCEPT !.queue = BulkRest(flow.queue, last'.res.ok),
                            !.count = IF last'.res.ok THEN @ + 1 ELSE @]
    /\ UNCHANGED <<localStorage, mgrMovies, file, view>>

\* JSON.stringify of the backup object: version, timestamp and data.movies;
\* data.settings is optional.  movies and settings are <<>> when absent;
\* array tells whether data.movies is an array (a file from elsewhere may
\* hold another value there, an object say).
BackupText(list, t) ==
    [kind |-> "object", version |-> <<"1", ".", "0">>, timestamp |-> toISOString(t),
     movies |-> <<StringifyList(list)>>, array |-> TRUE, settings |-> <<>>]

\* MovieManager.createBackup: the download is named movie-backup-<date>.
createBackup ==
    /\ flow.name = "idle"
    /\ flow.n < MaxOps
    /\ file' = <<[name |-> "movie-backup", text |-> BackupText(mgrMovies, clock),
                  taken |-> Taken(mgrMovies, settings)]>>
    /\ view' = [view EXCEPT !.notice = <<Note("success")>>]
    /\ flow' = [flow EXCEPT !.n = @ + 1]
    /\ UNCHANGED <<db, movies, settings, clock, last, localStorage, mgrMovies>>

\* The backup text passes the format check of restoreBackup.
ValidBackup(text) == text.kind = "object" /\ text.movies # <<>>

\* for (const movie of movies) can run: data.movies is an array; over an
\* object it throws a TypeError.
Iterable(text) == text.array

\* MovieManager.restoreBackup (reader.onload) up to the answer of clearAll
\* and the entry into the loop.
RestoreBegin(f, em, es) ==
    /\ flow.name = "idle"
    /\ flow.n < MaxOps
    /\ LET begun == [Begin("restore") EXCEPT !.from = f.name, !.taken = f.taken]
       IN  IF ~ValidBackup(f.text)
           THEN /\ flow' = Finish(begun, "restore", FALSE)
                /\ view' = [view EXCEPT !.notice = <<Note("error")>>]
                /\ UNCHANGED <<db, movies, settings, clock, last>>
           ELSE /\ clearAll(em, es)
                /\ IF ~last'.res.ok \/ ~Iterable(f.text)
                   THEN /\ flow' = Finish(begun, "restore", FALSE)
                        /\ view' = [view EXCEPT !.notice = <<Note("error")>>]
                   ELSE /\ flow' = [begun EXCEPT
                                        !.pc = "write",
                                        !.queue = ParseList(f.text.movies[1]),
                                        !.source = ParseList(f.text.movies[1]),
                                        !.squeue = IF f.text.settings = <<>> THEN <<>>
                                                   ELSE f.text.settings[1],
                                        !.empty = TRUE]
                        /\ view' = view
    /\ UNCHANGED <<localStorage, mgrMovies, file>>

\* One saveSetting of the settings loop of restoreBackup.
RestoreSetting(eng) ==
    /\ flow.name = "restore"
    /\ flow.pc = "write"
    /\ flow.queue = <<>>
    /\ flow.squeue # <<>>
    /\ saveSetting(Head(flow.squeue).k, Head(flow.squeue).v, eng)
    /\ flow' = [flow EXCEPT !.squeue = Tail(flow.squeue)]
    /\ UNCHANGED <<localStorage, mgrMovies, file, view>>

\* Files that did not come from this page: a list with an id that may be
\* stored, an incomplete movie and a further movie; a list that repeats an
\* id; a text that does not parse; a backup with settings whose first movie
\* is incomplete; a backup object without movies; a backup object whose
\* data.movies is an object, not an array.
ExternalTexts ==
    { ArrayText(<<LegacyMovie(1, 2011), Without(LegacyMovie(2, 2010), "title"),
                  LegacyMovie(2, 2010)>>),
      ArrayText(<<LegacyMovie(2, 2010), LegacyMovie(2, 2011)>>),
      Malformed,
      [BackupText(<<Without(LegacyMovie(1, 2010), "title"), LegacyMovie(2, 2011)>>, 0)
          EXCEPT !.settings = << <<[k |-> "theme", t |-> "string", v |-> <<"d">>]>> >>],
      [BackupText(<<>>, 0) EXCEPT !.movies = <<>>],
      [BackupText(<<>>, 0) EXCEPT !.array = FALSE] }

ExternalFiles ==
    { [name |-> "external", text |-> x, taken |-> Taken(<<>>, <<>>)] : x \in ExternalTexts }

\* The files the user can pick: an external one, or the last download.
Files == ExternalFiles \cup { file[i] : i \in 1..Len(file) }

\* The page after a startup without legacy data: the store is open and its
\* Items are loaded and shown.  The operations of the session run within one
\* reading of the millisecond clock.
InitApp ==
    /\ db = "open"
    /\ movies \in PersistedStores
    /\ settings \in InitialSettings
    /\ clock = MaxClock
    /\ last = [op |-> "getAllMovies", id |-> 0, arg |-> <<>>,
               res |-> Resolve(GetAll(movies)), reqs |-> <<"getAll">>, after |-> ""]
    /\ localStorage = <<>>
    /\ mgrMovies = Loaded(GetAll(movies))
    /\ flow = Finish([Idle EXCEPT !.name = "init"], "init", TRUE)
    /\ file = <<>>
    /\ view = [Blank EXCEPT !.shown = <<mgrMovies>>]
    /\ other = Idle
    /\ box = Quiet

NextApp ==
    \/ \E form \in SaveForms, eng \in NoFault : SaveBegin(form, eng) /\ UNCHANGED aside
    \/ \E eng \in NoFault : SaveWrite(clock, clock, eng) /\ UNCHANGED aside
    \/ \E id \in Ids, eng \in NoFault : DeleteBegin(id, eng) /\ UNCHANGED aside
    \/ \E eng \in ReadOutcomes : Reload(eng) /\ UNCHANGED aside
    \/ exportMovies /\ UNCHANGED aside
    \/ \E f \in Files, eng \in NoFault : ImportBegin(f, eng) /\ UNCHANGED aside
    \/ \E eng \in ReadOutcomes : BulkAdd(clock, clock, eng) /\ UNCHANGED aside
    \/ createBackup /\ UNCHANGED aside
    \/ \E f \in Files, em \in NoFault, es \in ReadOutcomes : RestoreBegin(f, em, es) /\ UNCHANGED aside
    \/ \E eng \in NoFault : RestoreSetting(eng) /\ UNCHANGED aside

SpecApp == InitApp /\ [][NextApp]_vars

----------------------------------------------------------------------------
(* MovieManager: flows that overlap *)

\* Every flow is an async function: at each await the event loop is free to
\* run the handler of another event, or the continuation of another flow.
\* flow is the flow whose step the event loop runs next, other the flow that
\* waits meanwhile; Yield turns to the flow that waited.  A flow that has
\* not begun is the idle record, which a handler can start from.
Yield ==
    /\ flow.name # "idle" \/ other.name # "idle"
    /\ flow' = other
    /\ other' = flow
    /\ UNCHANGED <<db, movies, settings, clock, last, localStorage, mgrMovies, file,
                   view, box>>

\* The session has operations left to start.
Room == flow.n + other.n < MaxOps

\* The cards and the buttons of the page can be reached: the dialog of the
\* form, open while a save is under way, does not lie over them.
PageReachable == ~view.loading

\* The forms submitted while other flows run: a new movie and an edit of the
\* movie with id 1.
OverlapForms ==
    { NewForm, [NewForm EXCEPT !.movieId = NumberToString(1), !.year = YearText(2011)] }

\* The backups restored while other flows run: the external backup with two
\* movies and a setting.
OverlapFiles == { f \in ExternalFiles : f.text.kind = "object" /\ f.text.settings # <<>> }

NextOverlap ==
    \/ Yield
    \/ Room /\ \E form \in OverlapForms, eng \in NoFault :
                  SaveBegin(form, eng) /\ UNCHANGED aside
    \/ \E eng \in ReadOutcomes : SaveWrite(clock, clock, eng) /\ UNCHANGED aside
    \/ Room /\ PageReachable /\ \E id \in Ids, eng \in NoFault :
                  DeleteBegin(id, eng) /\ UNCHANGED aside
    \/ \E eng \in NoFault : Reload(eng) /\ UNCHANGED aside
    \/ Room /\ \E f \in OverlapFiles, em \in NoFault, es \in NoFault :
                  RestoreBegin(f, em, es) /\ UNCHANGED aside
    \/ \E eng \in NoFault : BulkAdd(clock, clock, eng) /\ UNCHANGED aside
    \/ \E eng \in NoFault : RestoreSetting(eng) /\ UNCHANGED aside

\* Every store request completes and the continuation that awaits it runs:
\* the event loop turns to the flow that waits, and the write and the reload
\* of a save that can run do run.
SpecOverlap ==
    /\ InitApp
    /\ [][NextOverlap]_vars
    /\ WF_vars(Yield)
    /\ SF_vars(\E eng \in ReadOutcomes : SaveWrite(clock, clock, eng) /\ UNCHANGED aside)
    /\ SF_vars(\E eng \in NoFault : Reload(eng) /\ UNCHANGED aside)

----------------------------------------------------------------------------
(* MovieManager: the search box *)

\* The time that passes in one step of the clock of the search box.
Pause == Debounce \div 2

\* The texts typed into the search box: one that every stored movie
\* matches, one that no movie matches, and the empty text.
InputTexts == { <<"a">>, <<"l">>, <<>> }

\* clearTimeout(searchTimeout): the timer with that id, if it is still
\* pending, is removed.
clearTimeoutNothing(timers, handle) == timers

clearTimeout(timers, handle) == SelectSeq(timers, LAMBDA t : t.id # handle)

\* The input listener of the search box: the pending timer is cleared and a
\* new one is set.
InputEvent(v) ==
    /\ box.made < MaxInputs
    /\ box' = [box EXCEPT
                 !.input = v,
                 !.timers = Append(clearTimeout(box.timers, box.handle),
                                   [id |-> box.made + 1, left |-> Debounce]),
                 !.handle = box.made + 1,
                 !.made = box.made + 1,
                 !.since = 0]
    /\ UNCHANGED <<db, movies, settings, clock, last, localStorage, mgrMovies, flow,
                   file, view, other>>

\* Pause milliseconds pass.
Pass ==
    /\ box.since < Debounce \/ \E i \in 1..Len(box.timers) : box.timers[i].left > 0
    /\ LET left(t) == IF t.left > Pause THEN t.left - Pause ELSE 0
       IN  box' = [box EXCEPT
                     !.timers = [i \in 1..Len(box.timers) |->
                                    [box.timers[i] EXCEPT !.left = left(box.timers[i])]],
                     !.since = IF box.since + Pause < Debounce
                               THEN box.since + Pause ELSE Debounce]
    /\ UNCHANGED <<db, movies, settings, clock, last, localStorage, mgrMovies, flow,
                   file, view, other>>

\* The filters filterAndDisplayMovies builds; the genre filter stays 'all',
\* so genre is undefined, as search is for the empty text.
SearchFilters(query) == IF query = <<>> THEN <<>> ELSE [search |-> query]

\* s without its i-th element
Remove(s, i) == SubSeq(s, 1, i - 1) \o SubSeq(s, i + 1, Len(s))

\* A search timer fires: searchQuery takes the text of the box and
\* filterAndDisplayMovies issues its searchMovies request.
TimerFire(i, eng) ==
    /\ i \in 1..Len(box.timers)
    /\ box.timers[i].left = 0
    /\ searchMovies(SearchFilters(box.input), eng)
    /\ box' = [box EXCEPT
                 !.query = box.input,
                 !.timers = Remove(box.timers, i),
                 !.pending = Append(box.pending, [search |-> box.input, res |-> last'.res]),
                 !.issued = Append(box.issued, box.input)]
    /\ UNCHANGED <<localStorage, mgrMovies, flow, file, view, other>>

\* The answer of a searchMovies request reaches filterAndDisplayMovies, which
\* renders it; a rejection is answered by the fallback, which filters
\* this.movies.  Requests of different read-only transactions may be
\* answered in any order.
QueryComplete(i) ==
    /\ i \in 1..Len(box.pending)
    /\ LET res == box.pending[i].res
       IN  view' = [view EXCEPT
                      !.shown = IF res.ok THEN <<res.value>>
                                ELSE <<ApplyFilters(mgrMovies, SearchFilters(box.query))>>]
    /\ box' = [box EXCEPT !.pending = Remove(box.pending, i)]
    /\ UNCHANGED <<db, movies, settings, clock, last, localStorage, mgrMovies, flow,
                   file, other>>

\* The engine starts a read-write transaction on the movies store only when
\* the read-only transactions made before it have finished.
ReadsDone == box.pending = <<>>

NextSearch ==
    \/ \E v \in InputTexts : InputEvent(v)
    \/ Pass
    \/ \E i \in 1..MaxInputs, eng \in NoFault : TimerFire(i, eng)
    \/ \E i \in 1..MaxInputs : QueryComplete(i)
    \/ \E eng \in NoFault : SaveBegin(NewForm, eng) /\ UNCHANGED aside
    \/ ReadsDone /\ \E eng \in NoFault : SaveWrite(clock, clock, eng) /\ UNCHANGED aside
    \/ \E eng \in NoFault : Reload(eng) /\ UNCHANGED aside

SpecSearch == InitApp /\ [][NextSearch]_vars

----------------------------------------------------------------------------
(* Properties of the Record Store *)

\* The step is a call of op: it leaves the record of that call in last.  (The
\* one other step, Tick, changes nothing but the clock.)
CallStep(op) ==
    /\ last'.op = op
    /\ <<last, movies, settings>>' # <<last, movies, settings>>

\* Every record stored before the step is stored, unchanged, after it.
NothingOverwritten ==
    \A k \in DOMAIN movies : k \in DOMAIN movies' /\ movies'[k] = movies[k]

\* C1: an add never overwrites a stored Item: a successful add stores the Item
\* under an id that was not stored before and leaves every other Item as it
\* was, and an add whose id is already stored fails with DuplicateId and
\* leaves the collection, the stored Item included, unchanged.
C1_AddNeverOverwrites ==
    [][ CallStep("addMovie") =>
            /\ NothingOverwritten
            /\ last'.res.ok =>
                  /\ last'.id \notin DOMAIN movies
                  /\ DOMAIN movies' = DOMAIN movies \cup {last'.id}
            /\ (last'.reqs = <<"add">> /\ last'.id \in DOMAIN movies) =>
                  /\ last'.res = Reject("DuplicateId")
                  /\ movies' = movies
      ]_vars

\* C1 happens: two Items with distinct ids are stored and an add with an id
\* among them has been rejected as a duplicate.
C1_Witness ==
    /\ last.op = "addMovie"
    /\ last.res = Reject("DuplicateId")
    /\ Cardinality(DOMAIN movies) = 2
    /\ movies[last.id].year # last.arg.year

\* Every stored Item is keyed by its own id.
KeyedById == \A k \in DOMAIN movies : movies[k].id = k

\* C2: the id of an Item is immutable and unique: every stored Item is keyed
\* by its own id, and no update(id, partialFields), whatever partialFields
\* holds, changes the id of the Item, creates an Item under another id or
\* alters an Item other than the one keyed by id.
C2_IdImmutable ==
    /\ []KeyedById
    /\ [][ CallStep("updateMovie") =>
              LET id == last'.id
              IN  /\ DOMAIN movies' = DOMAIN movies
                  /\ \A k \in DOMAIN movies \ {id} : movies'[k] = movies[k]
                  /\ id \in DOMAIN movies => movies'[id].id = id
          ]_vars

\* C3: update(id, {year: Y}) changes only year and updated_at of the Item
\* keyed by id: its other fields, every other Item and every Setting are as
\* before.
C3_UpdateYearFrame ==
    [][ (CallStep("updateMovie") /\ DOMAIN last'.arg = {"year"}) =>
          LET id == last'.id
          IN  /\ settings' = settings
              /\ DOMAIN movies' = DOMAIN movies
              /\ \A k \in DOMAIN movies \ {id} : movies'[k] = movies[k]
              /\ id \in DOMAIN movies =>
                    /\ DOMAIN movies'[id] = DOMAIN movies[id]
                    /\ \A f \in DOMAIN movies[id] \ {"year", "updated_at"} :
                          movies'[id][f] = movies[id][f]
      ]_vars

\* C3 happens: a year-only update has changed the year of an Item that has a
\* poster, beside another Item and a Setting.
C3_Witness ==
    /\ last.op = "updateMovie"
    /\ last.res.ok
    /\ DOMAIN last.arg = {"year"}
    /\ movies[last.id].year = last.arg.year
    /\ "poster" \in DOMAIN movies[last.id]
    /\ movies[last.id].updated_at # movies[last.id].created_at
    /\ Cardinality(DOMAIN movies) = 2
    /\ settings # <<>>

\* The derived fields of a stored Item.
DerivedFields == {"id", "created_at", "updated_at"}

\* C4: after a successful add, get(id) with the id the add returned yields an
\* Item whose title, year, genre, director and poster are the input's (a
\* poster the input lacks stays absent); only id (when the input had none),
\* created_at and updated_at are derived by the store.
C4_AddThenGet ==
    (last.op = "addMovie" /\ last.res.ok) =>
        LET got == StoreGet(movies, last.res.value[1])
        IN  /\ Len(got) = 1
            /\ DOMAIN got[1] = DOMAIN last.arg \cup DerivedFields
            /\ \A f \in DOMAIN last.arg \ DerivedFields : got[1][f] = last.arg[f]
            /\ Truthy(last.arg, "id") => got[1].id = last.arg.id

\* C4 happens: an Item with a poster and no id has been added beside another.
C4_Witness ==
    /\ last.op = "addMovie"
    /\ last.res.ok
    /\ "id" \notin DOMAIN last.arg
    /\ "poster" \in DOMAIN last.arg
    /\ StoreGet(movies, last.res.value[1])[1].poster = PosterA
    /\ Cardinality(DOMAIN movies) = 2

\* C5: remove(id) is never refused because the id is not stored (only a
\* store that is not open or an engine failure rejects it); after it succeeds
\* get(id) finds nothing, and no other Item is affected.
C5_RemoveUnconditional ==
    /\ []((last.op = "deleteMovie" /\ last.res.ok) => StoreGet(movies, last.id) = <<>>)
    /\ [][ CallStep("deleteMovie") =>
              /\ last'.res.ok \/ last'.res.error \in {"TypeError", "UnknownError"}
              /\ db = "open" /\ last'.res.error # "UnknownError" => last'.res.ok
              /\ last'.res.ok =>
                    /\ DOMAIN movies' = DOMAIN movies \ {last'.id}
                    /\ \A k \in DOMAIN movies' : movies'[k] = movies[k]
              /\ ~last'.res.ok => movies' = movies
          ]_vars

\* C5 happens: a second remove of the same id has succeeded, another Item
\* being stored.
C5_Witness ==
    /\ last.op = "deleteMovie"
    /\ last.after = "deleteMovie"
    /\ last.res.ok
    /\ movies # <<>>

\* A required field of the movie is absent or empty (for the year: absent or 0).
AbsentOrEmpty(movie) ==
    \E f \in {"title", "year", "genre", "director"} :
        \/ f \notin DOMAIN movie
        \/ movie[f] = IF f = "year" THEN 0 ELSE <<>>

\* C6: add fails whenever one of title, year, genre, director is absent or
\* empty, without issuing a request and without changing the collection; an
\* add that succeeds had all four present and non-empty.
C6_AddRequiresFields ==
    [][ CallStep("addMovie") =>
          /\ AbsentOrEmpty(last'.arg) =>
                /\ ~last'.res.ok
                /\ last'.reqs = <<>>
                /\ movies' = movies
          /\ last'.res.ok => ~AbsentOrEmpty(last'.arg)
      ]_vars

\* C6 happens: an add without a year has been refused while an Item is stored.
C6_Witness ==
    /\ last.op = "addMovie"
    /\ last.res = Reject("MissingFields")
    /\ "year" \notin DOMAIN last.arg
    /\ "title" \in DOMAIN last.arg
    /\ movies # <<>>

\* C7: right after a successful add the stored Item has created_at equal to
\* updated_at, whenever the clock advances during the add.
C7_CreatedEqualsUpdated ==
    (last.op = "addMovie" /\ last.res.ok) =>
        movies[last.id].created_at = movies[last.id].updated_at

\* The state C8 is about: a year-only update has succeeded right after the
\* add of the same Item.
UpdatedAfterAdd ==
    /\ last.op = "updateMovie"
    /\ last.after = "addMovie"
    /\ last.res.ok
    /\ DOMAIN last.arg = {"year"}

\* C8 as stated: after add and an immediate update with {year: Y}, get(id)
\* has year Y and an updated_at strictly greater than created_at.
C8_UpdatedStrictlyLater ==
    UpdatedAfterAdd =>
        LET got == StoreGet(movies, last.id)[1]
        IN  /\ got.year = last.arg.year
            /\ StrLess(got.created_at, got.updated_at)

\* C8, amended: after add and an immediate update with {year: Y}, get(id) has
\* year Y and an updated_at that is not before created_at.
C8_UpdatedNotEarlier ==
    UpdatedAfterAdd =>
        LET got == StoreGet(movies, last.id)[1]
        IN  /\ got.year = last.arg.year
            /\ ~StrLess(got.updated_at, got.created_at)

\* C8 happens: the update changed the year within the millisecond of the add.
C8_Witness ==
    /\ UpdatedAfterAdd
    /\ movies[last.id].year = 2011
    /\ movies[last.id].updated_at = movies[last.id].created_at

\* q occurs in text, letter case aside.
OccursIn(q, text) ==
    \E i \in 0..(Len(text) - Len(q)) :
        \A j \in 1..Len(q) : LowerChar(text[i + j]) = LowerChar(q[j])

\* The filter is set: given, and neither empty nor 0.
IsSet(filters, f) ==
    /\ f \in DOMAIN filters
    /\ filters[f] # IF f = "year" THEN 0 ELSE <<>>

\* The Item satisfies every filter that is set.
Satisfies(m, filters) ==
    /\ IsSet(filters, "search") =>
          \/ OccursIn(filters.search, m.title)
          \/ OccursIn(filters.search, m.genre)
          \/ OccursIn(filters.search, m.director)
    /\ (IsSet(filters, "genre") /\ filters.genre # <<"a", "l", "l">>) =>
          OccursIn(filters.genre, m.genre)
    /\ IsSet(filters, "year") => m.year = filters.year
    /\ "yearRange" \in DOMAIN filters =>
          filters.yearRange[1] <= m.year /\ m.year <= filters.yearRange[2]
    /\ IsSet(filters, "director") => OccursIn(filters.director, m.director)

\* A query has answered; it asked for no page.
Answered ==
    /\ last.op = "searchMovies"
    /\ last.res.ok
    /\ DOMAIN last.arg \cap {"offset", "limit"} = {}

Sorting == "sortBy" \in DOMAIN last.arg /\ last.arg.sortBy # ""

\* C9: a query without sortBy, offset and limit returns exactly the stored
\* Items that satisfy every filter that is set, in stored (key) order, hence
\* every Item when no filter is set; and a query never modifies the store.
C9_QueryFilters ==
    /\ []((Answered /\ ~Sorting) =>
            LET r == last.res.value
            IN  /\ { r[i] : i \in 1..Len(r) }
                      = { movies[k] : k \in { x \in DOMAIN movies :
                                                Satisfies(movies[x], last.arg) } }
                /\ \A i, j \in 1..Len(r) : i < j => r[i].id < r[j].id
                /\ DOMAIN last.arg \subseteq {"sortBy"} => Len(r) = Cardinality(DOMAIN movies))
    /\ [][ CallStep("searchMovies") => movies' = movies /\ settings' = settings ]_vars

\* C9 happens: a search has picked, out of three Items, some but not all, one
\* of them by its director alone and in another letter case.
C9_Witness ==
    /\ Answered
    /\ ~Sorting
    /\ IsSet(last.arg, "search")
    /\ Cardinality(DOMAIN movies) = 3
    /\ Len(last.res.value) \in {1, 2}
    /\ \E i \in 1..Len(last.res.value) :
          LET m == last.res.value[i]
          IN  /\ ~OccursIn(last.arg.search, m.title)
              /\ ~OccursIn(last.arg.search, m.genre)
              /\ ~includes(m.director, last.arg.search)

\* The stored Items that satisfy the filters, in stored order.
Filtered == SelectSeq(GetAll(movies), LAMBDA m : Satisfies(m, last.arg))

\* r holds the Items of s, each once.
Permutation(r, s) ==
    /\ Len(r) = Len(s)
    /\ \A i \in 1..Len(s) : \E j \in 1..Len(r) : r[j] = s[i]

\* The sort key of an Item under a recognized sortBy.
SortKey(m, sortBy) ==
    CASE sortBy \in {"title-asc", "title-desc"} -> m.title
      [] sortBy \in {"year-asc", "year-desc"} -> <<m.year>>
      [] OTHER -> m.created_at

\* C10: with sortBy year-asc the query returns a permutation of the filtered
\* Items that is non-decreasing in year, with year-desc one that is
\* non-increasing; under each of the six sort options Items with equal sort
\* keys keep their relative order; an unrecognized sortBy leaves the order of
\* the filtered Items unchanged.
C10_QuerySort ==
    (Answered /\ Sorting) =>
        LET r == last.res.value
            sortBy == last.arg.sortBy
        IN  IF sortBy \in SortOptions
            THEN /\ Permutation(r, Filtered)
                 /\ \A i, j \in 1..Len(r) :
                       i < j =>
                         /\ sortBy = "year-asc" => r[i].year <= r[j].year
                         /\ sortBy = "year-desc" => r[i].year >= r[j].year
                         /\ SortKey(r[i], sortBy) = SortKey(r[j], sortBy)
                               => r[i].id < r[j].id
            ELSE r = Filtered

\* C10 happens: year-desc has reordered three Items, two of them of one year.
C10_Witness ==
    /\ Answered
    /\ Sorting
    /\ last.arg.sortBy = "year-desc"
    /\ Len(last.res.value) = 3
    /\ last.res.value # Filtered
    /\ last.res.value[1].year = last.res.value[2].year
    /\ last.res.value[2].year > last.res.value[3].year

\* A query that asked for a page has answered.
AnsweredPage ==
    /\ last.op = "searchMovies"
    /\ last.res.ok
    /\ DOMAIN last.arg \cap {"offset", "limit"} # {}

\* C11: a query given an offset or a limit returns exactly the slice
\* [offset, offset + limit) of the filtered and sorted sequence, offset
\* defaulting to 0 and limit to 50 when only the other is given, and so never
\* more than limit Items, for every offset >= 0 and limit >= 0, 0 included.
C11_QueryPage ==
    AnsweredPage =>
        LET r == last.res.value
            s == ApplySort(Filtered, last.arg)
            offset == IF "offset" \in DOMAIN last.arg THEN last.arg.offset ELSE 0
            limit == IF "limit" \in DOMAIN last.arg THEN last.arg.limit ELSE DefaultLimit
            hi == IF offset + limit < Len(s) THEN offset + limit ELSE Len(s)
        IN  /\ Len(r) <= limit
            /\ Len(r) = IF hi > offset THEN hi - offset ELSE 0
            /\ \A j \in 1..Len(r) : offset + j <= Len(s) /\ r[j] = s[offset + j]

\* C12: clearAll reports success only when both the Item clear and the Setting
\* clear have succeeded and reports failure when either has failed; whenever
\* it has reported success, getAll returns the empty sequence and getSetting
\* returns null for every key.
C12_ClearAllBoth ==
    /\ []((last.op = "clearAll" /\ last.res.ok) =>
            /\ GetAll(movies) = <<>>
            /\ \A key \in SettingKeys : key \notin DOMAIN settings
            /\ settings = <<>>)
    /\ [][ (CallStep("clearAll") /\ db = "open") =>
              /\ last'.res.ok <=> \A f \in DOMAIN last'.arg : last'.arg[f] = "ok"
              /\ last'.reqs = <<"clear", "clear">>
          ]_vars

\* C12 happens: clearAll has reported success right after an add, and both
\* stores are empty.
C12_Witness ==
    /\ last.op = "clearAll"
    /\ last.res.ok
    /\ last.after = "addMovie"
    /\ movies = <<>>
    /\ settings = <<>>

\* C28: clearAll is all-or-nothing: a clearAll that reports failure has
\* emptied neither the movies store nor the settings store.
C28_ClearAllAllOrNothing ==
    [][ (CallStep("clearAll") /\ ~last'.res.ok) =>
            (movies' = movies /\ settings' = settings) ]_vars

\* C29: an add of a valid movie without id, answered by the engine without
\* a quota or write error, succeeds, and the id it takes from the clock is
\* the id of no movie stored before.
C29_FreshId ==
    [][ ( /\ CallStep("addMovie")
          /\ last'.reqs # <<>>
          /\ ~Truthy(last'.arg, "id")
          /\ last'.res.error \notin {"QuotaExceeded", "WriteError"} ) =>
            /\ last'.res.ok
            /\ last'.id \notin DOMAIN movies
            /\ last'.id \in DOMAIN movies'
      ]_vars

----------------------------------------------------------------------------
(* Properties of the startup *)

\* C17: the legacy migration writes only when the Item collection was found
\* empty and a legacy entry exists, and it only adds: during startup no stored
\* Item is changed or removed, every change of the store is an add of the
\* migration loop, and the first of them finds the store empty; so Items
\* stored before startup are neither joined nor touched by the migration.
C17_MigrationAddOnly ==
    [][ flow.name = "init" =>
          /\ NothingOverwritten
          /\ movies' # movies =>
                /\ last'.op = "addMovie"
                /\ flow.pc = "migrate-add"
                /\ localStorage # <<>>
                /\ flow.empty
                /\ flow.queue = flow.source => movies = <<>>
      ]_vars

\* C17 happens: startup has finished after migrating two legacy items into a
\* store that was empty.
C17_Witness ==
    /\ flow.done = "init"
    /\ flow.empty
    /\ Cardinality(DOMAIN movies) = 2
    /\ localStorage = <<>>
    /\ Len(mgrMovies) = 2

\* C18: the migration is best-effort per item and consumes the legacy entry:
\* when the add of a legacy item fails, the items after it are still to be
\* attempted, and when the migration step is over the legacy entry has been
\* deleted.
C18_MigrationBestEffort ==
    [][ (flow.name = "init" /\ flow.pc = "migrate-add"
           /\ CallStep("addMovie") /\ ~last'.res.ok) =>
          /\ flow'.queue = Tail(flow.queue)
          /\ flow'.pc = "load" => localStorage' = <<>>
      ]_vars

\* How far startup has come: open, migrate, the migration loop, load, over.
StartupRank ==
    CASE flow.name = "init" /\ flow.pc = "open" -> 1
      [] flow.name = "init" /\ flow.pc = "migrate" -> 2
      [] flow.name = "init" /\ flow.pc = "migrate-add" -> 3
      [] flow.name = "init" /\ flow.pc = "load" -> 4
      [] OTHER -> 5

\* C19: startup runs open, migrate, load, render in this order: nothing is
\* read from or written to the Items before the open has succeeded, the load
\* comes after the migration step, the first render comes with the load, and
\* when the open fails no later step runs.
C19_StartupOrder ==
    /\ []((flow.name = "init" /\ flow.pc # "open") => db = "open")
    /\ [](view.shown # <<>> =>
             (flow.done = "init" /\ flow.ok /\ last.op = "getAllMovies"))
    /\ []((flow.done = "init" /\ ~flow.ok) =>
             /\ db = "null"
             /\ last.op = "initDB"
             /\ mgrMovies = <<>>
             /\ view.shown = <<>>)
    /\ [][ /\ StartupRank' >= StartupRank
           /\ (last' # last /\ last'.op # "initDB") => db = "open"
           /\ (last' # last /\ last'.op = "initDB") => StartupRank = 1
           /\ (last' # last /\ last'.op = "addMovie") => StartupRank = 3
           /\ (last' # last /\ last'.op = "getAllMovies") => StartupRank \in {2, 4}
           /\ (StartupRank' = 5 /\ StartupRank # 5) =>
                 \/ StartupRank = 4 /\ view'.shown # <<>>
                 \/ StartupRank = 1 /\ db' = "null"
         ]_vars

\* C19 happens: startup has opened the store, migrated, loaded and rendered
\* two Items.
C19_Witness ==
    /\ flow.done = "init"
    /\ flow.ok
    /\ db = "open"
    /\ flow.source # <<>>
    /\ view.shown = <<mgrMovies>>
    /\ Len(mgrMovies) = 2
    /\ last.op = "getAllMovies"

----------------------------------------------------------------------------
(* Properties of the running page *)

\* What identifies a movie to its owner.
Core(m) ==
    [f \in {"id", "title", "year", "genre", "director"} \cap DOMAIN m |-> m[f]]

CoreSet(list) == { Core(list[i]) : i \in 1..Len(list) }

\* An import or a restore has made its last write and is about to reload.
Written(name) == flow.name = name /\ AtReload

\* C13: exporting and then importing the exported file into an empty store
\* reproduces the Item set: when every write of the import has succeeded the
\* store holds as many Items as were exported, with the same ids, titles,
\* years, genres and directors.
C13_ExportImportRoundTrip ==
    (Written("import") /\ flow.from = "movie-collection" /\ flow.empty
        /\ flow.count = Len(flow.taken.movies)) =>
        /\ Len(GetAll(movies)) = Len(flow.taken.movies)
        /\ CoreSet(GetAll(movies)) = CoreSet(flow.taken.movies)

C13_Witness ==
    /\ Written("import") /\ flow.from = "movie-collection" /\ flow.empty
    /\ flow.count = Len(flow.taken.movies)
    /\ flow.count > 0
    /\ movies # <<>>

\* C14: an import never changes or removes an Item that was stored before
\* it: the imported Items it sets out to add are those that have the
\* required fields and whose id is not stored, and each of its steps leaves
\* every stored Item as it was and adds at most the Item at the head of
\* that list.
C14_ImportAddsOnly ==
    [][ /\ (flow.name = "idle" /\ flow'.name = "import") =>
              /\ movies' = movies
              /\ flow'.queue =
                    SelectSeq(flow'.source, LAMBDA m :
                        /\ ~MissingRequired(m)
                        /\ ~("id" \in DOMAIN m /\ m.id \in DOMAIN movies))
        /\ flow.name = "import" =>
              /\ \A k \in DOMAIN movies : k \in DOMAIN movies' /\ movies'[k] = movies[k]
              /\ \A k \in DOMAIN movies' \ DOMAIN movies :
                    /\ flow.queue # <<>>
                    /\ Core(movies'[k]) = [id |-> k] @@ Core(Head(flow.queue))
                    /\ DOMAIN movies' = DOMAIN movies \cup {k}
      ]_vars

C14_Witness ==
    /\ Written("import") /\ flow.from = "external"
    /\ Len(flow.source) = 3
    /\ flow.count = 1
    /\ DOMAIN movies = {1, 2}
    /\ movies[1] = StoredMovie(1)

\* What a backup is to bring back of a movie: its core and its poster.
Kept(m) ==
    [f \in {"id", "title", "year", "genre", "director", "poster"} \cap DOMAIN m |-> m[f]]

KeptSet(list) == { Kept(list[i]) : i \in 1..Len(list) }

\* The settings of a store: every key with its value.
SettingPairs(stored) == { <<k, stored[k].value>> : k \in DOMAIN stored }

\* C15: making a backup and then restoring that file reproduces the
\* persisted state of the time of the backup: when every write of the
\* restore has succeeded, the store holds the Items of that time, posters
\* included, and the Settings of that time, every key with its value.
C15_BackupRestoreRoundTrip ==
    (Written("restore") /\ flow.from = "movie-backup"
        /\ flow.count = Len(flow.taken.movies)) =>
        /\ Len(GetAll(movies)) = Len(flow.taken.movies)
        /\ KeptSet(GetAll(movies)) = KeptSet(flow.taken.movies)
        /\ SettingPairs(settings) = SettingPairs(flow.taken.settings)

\* The part of C15 about the Items alone.
BackupRestoreItems ==
    (Written("restore") /\ flow.from = "movie-backup"
        /\ flow.count = Len(flow.taken.movies)) =>
        /\ Len(GetAll(movies)) = Len(flow.taken.movies)
        /\ KeptSet(GetAll(movies)) = KeptSet(flow.taken.movies)

\* The loop of an import or a restore has movies left to add.
InBulk == flow.name \in {"import", "restore"} /\ flow.pc = "write" /\ flow.queue # <<>>

\* C16: the loop of an import or a restore writes one Item at a time, in
\* the order of the list: while movies are left, the next step is the add of
\* the first of them, and whether that add succeeds or fails the loop goes
\* on with the rest of the list, none skipped and none repeated.
C16_BulkGoesOn ==
    [][ InBulk =>
          /\ last'.op = "addMovie"
          /\ last'.arg = Head(flow.queue)
          /\ flow'.name = flow.name
          /\ flow'.pc = "write"
          /\ flow'.queue = Tail(flow.queue)
      ]_vars

\* A restore of two movies whose first add failed and whose second succeeded.
C16_Witness ==
    /\ flow.name = "restore" /\ flow.pc = "write"
    /\ Len(flow.source) = 2 /\ flow.queue = <<>>
    /\ flow.count = 1
    /\ last.op = "addMovie" /\ last.res.ok
    /\ last.arg = flow.source[2]

\* C20: whenever a save, a delete, an import or a restore has finished,
\* succeeded or failed, and no flow is in progress, the list the controller
\* holds is the list of the Items stored.
C20_ListMatchesStore ==
    (flow.name = "idle" /\ flow.done \in {"save", "delete", "import", "restore"}) =>
        mgrMovies = Loaded(GetAll(movies))

\* The same for the flows that finished with success.
ListMatchesStoreAfterSuccess ==
    (flow.name = "idle" /\ flow.done \in {"save", "delete", "import", "restore"}
        /\ flow.ok /\ last.op = "getAllMovies" /\ last.res.ok) =>
        mgrMovies = Loaded(GetAll(movies))

\* C22: validation errors never reach the store: a save that ends where it
\* began leaves the movies store unchanged, and every movie a save writes
\* has a year within MinYear..MaxYear.
C22_ValidatedWrites ==
    [][ /\ (flow.name = "idle" /\ flow'.name = "idle" /\ flow'.n = flow.n + 1
               /\ flow'.done = "save") => movies' = movies
        /\ (flow.name = "save" /\ last' # last
               /\ last'.op \in {"addMovie", "updateMovie"} /\ last'.res.ok) =>
              /\ last'.id \in DOMAIN movies'
              /\ movies'[last'.id].year >= MinYear
              /\ movies'[last'.id].year <= MaxYear
      ]_vars

\* A notification of type error is among those the page shows.
ErrorShown(v) == \E i \in 1..Len(v.notice) : v.notice[i].type = "error"

\* C23: every store error raised inside a controller flow leads to a
\* user-facing notification: a step in which a request of the flow is
\* rejected shows an error notification.
C23_ErrorsNotified ==
    [][ (last' # last /\ ~last'.res.ok) => ErrorShown(view') ]_vars

\* C24: the count in the final success notification of an import or a
\* restore is the number of movies the operation has written to the store.
C24_FinalCount ==
    [][ (flow.name \in {"import", "restore"} /\ flow'.name = "idle" /\ flow'.ok) =>
            LET final == view'.notice[Len(view'.notice)]
            IN  final.type = "success" /\ final.count = <<flow.count>>
      ]_vars

\* C27: a restore that ends in failure because of what its file holds, not
\* because a store request was rejected, leaves the movies store and the
\* settings store as they were.
C27_RestoreOnlyWellFormed ==
    [][ ( /\ flow.name = "idle" /\ flow'.name = "idle"
          /\ flow'.n = flow.n + 1
          /\ flow'.done = "restore" /\ ~flow'.ok
          /\ (last' = last \/ last'.res.ok) ) =>
            (movies' = movies /\ settings' = settings)
      ]_vars

----------------------------------------------------------------------------
(* Properties of flows that overlap *)

\* A mutation flow has made its first store request and not yet its last.
Busy(f) == f.name \in {"save", "delete", "import", "restore"}

WriteOps == {"addMovie", "updateMovie", "deleteMovie", "clearAll", "saveSetting"}

\* C21: mutations are serialized: while a mutation flow is between its
\* first and its last store request no other flow issues a store write, and
\* when saveMovieToDB makes its update or its add, the movie is stored or
\* not stored as its existence check found it.
C21_Serialized ==
    [][ /\ (last' # last /\ last'.op \in WriteOps) => ~Busy(other)
        /\ (flow.name = "save" /\ flow.pc \in {"add", "update"}
               /\ last' # last /\ last'.op \in {"addMovie", "updateMovie"}) =>
              ((flow.pc = "update") = (Head(flow.queue).id \in DOMAIN movies))
      ]_vars

\* The existence check alone, for the sessions in which flows overlap.
ExistenceCheckStands ==
    [][ (flow.name = "save" /\ flow.pc \in {"add", "update"}
            /\ last' # last /\ last'.op \in {"addMovie", "updateMovie"}) =>
           ((flow.pc = "update") = (Head(flow.queue).id \in DOMAIN movies))
      ]_vars

\* A handler starts a save: the step is not a turn of the event loop to the
\* flow that waited.
SaveStarts == other' = other /\ flow.name = "idle" /\ flow'.name = "save"

\* C30: the loading state saveMovie puts the form into is cleared in the
\* end on every path, the requests of the store completing, and while it is
\* set no save is started.
C30_LoadingCleared ==
    /\ view.loading ~> ~view.loading
    /\ [][ SaveStarts => ~view.loading ]_vars

\* The loading state was set and a rejected write has cleared it.
C30_Witness ==
    /\ ~view.loading
    /\ flow.name = "idle" /\ flow.done = "save" /\ ~flow.ok
    /\ last.op \in {"addMovie", "updateMovie"} /\ ~last.res.ok

----------------------------------------------------------------------------
(* Properties of the search box *)

\* C25: the search is debounced: at most one timer is pending at any time,
\* and a filter query is issued only when Debounce milliseconds have passed
\* since the last input event; the step issues one query, which carries the
\* text last typed, and leaves no timer behind.
C25_Debounced ==
    /\ [](Len(box.timers) <= 1)
    /\ [][ Len(box'.issued) > Len(box.issued) =>
              /\ box.since >= Debounce
              /\ box'.issued = Append(box.issued, box.input)
              /\ box'.query = box.input
              /\ box'.timers = <<>>
        ]_vars

\* Two input events have issued one query, the one for the text typed
\* last: the second event came while the timer of the first was pending.
C25_Witness ==
    /\ box.made = 2
    /\ box.issued = <<box.input>>
    /\ box.timers = <<>>

\* C26: once no store request of the controller is pending, the list
\* rendered is the list of the stored movies filtered by searchQuery.
C26_ShownIsFiltered ==
    (flow.name = "idle" /\ box.pending = <<>>) =>
        view.shown = <<SearchResult(movies, SearchFilters(box.query))>>

\* The same when no text is searched for and the page only saves.
ShownIsStoredUnfiltered ==
    (flow.name = "idle" /\ box.made = 0) => view.shown = <<GetAll(movies)>>

====
